---- MODULE Spec2Model ----
(***************************************************************************)
(* SuiteEditNotebookRenderer                                               *)
(* (great_expectations/render/renderer/suite_edit_notebook_renderer.py).   *)
(*                                                                         *)
(* Representation:                                                         *)
(*   - a Python str is a sequence of text tokens, so that formatting,      *)
(*     joining and os.path.join are concatenations that can be compared;   *)
(*     a token is a run of printable characters other than quotes, the     *)
(*     backslash and the slash, or one of the characters ' " \ / newline,  *)
(*     tab, carriage return, form feed on its own; a str that is an input  *)
(*     is given as its longest runs, so it has one representation;         *)
(*   - a value is [type, text, num]: its Python type (str, int, float,     *)
(*     bool, Decimal, NoneType, list, dict), its str() text and, of a      *)
(*     number, its value counted in halves (0 otherwise); the numbers are  *)
(*     the multiples of one half, which every numeric type holds exactly;  *)
(*   - a dict is a sequence of <<key, value>> pairs (insertion order); a   *)
(*     key of a kwargs, meta or batch_kwargs dict is a str, so a text;     *)
(*   - an optional mapping object is [kind, items] with kind "None",       *)
(*     "dict" or "BatchKwargs";                                            *)
(*   - objects the renderer aliases (expectations of a suite, the caller's *)
(*     batch_kwargs, the batch_kwargs of a citation, notebooks) are        *)
(*     referenced, so in-place mutation is visible to every holder of the  *)
(*     reference.                                                          *)
(***************************************************************************)
EXTENDS Integers, Sequences, FiniteSets, TLC

\* ------------------------------------------------------------------ bounds
MaxRules == 2
MaxGroupRules == 3
MaxKwargs == 3
MaxCitations == 2
MaxCalls == 2

\* ------------------------------------------------------------------ values
Abs(n) == IF n < 0 THEN -n ELSE n

\* str() of a float or a Decimal with one decimal place
OneDecimal(halves) ==
    (IF halves < 0 THEN "-" ELSE "") \o ToString(Abs(halves) \div 2)
        \o (IF Abs(halves) % 2 = 0 THEN ".0" ELSE ".5")

StrVal(toks) == [type |-> "str", text |-> toks, num |-> 0]
IntVal(n) == [type |-> "int", text |-> <<ToString(n)>>, num |-> 2 * n]
FloatVal(halves) == [type |-> "float", text |-> <<OneDecimal(halves)>>, num |-> halves]
BoolVal(b) ==
    [type |-> "bool", text |-> <<IF b THEN "True" ELSE "False">>, num |-> IF b THEN 2 ELSE 0]
DecimalVal(halves) == [type |-> "Decimal", text |-> <<OneDecimal(halves)>>, num |-> halves]
NoneVal == [type |-> "NoneType", text |-> <<"None">>, num |-> 0]

\* a == b and hash(a) == hash(b), as a dict compares its keys: numbers of any
\* type are one key when their values are equal
Numeric(v) == v.type \in {"int", "float", "bool", "Decimal"}
SameKey(a, b) == IF Numeric(a) /\ Numeric(b) THEN a.num = b.num ELSE a = b

\* hash(v) raises TypeError for a list and a dict
Hashable(v) == v.type \notin {"list", "dict"}

\* what a call does: it returns a value or raises an exception
Returns(value) == [raises |-> "", value |-> value]
Raises(exception) == [raises |-> exception, value |-> <<>>]

NoneObj == [kind |-> "None", items |-> <<>>]
DictObj(items) == [kind |-> "dict", items |-> items]
BatchKwargsObj(items) == [kind |-> "BatchKwargs", items |-> items]

\* dict helpers (a dict is a sequence of <<key, value>> pairs)
Keys(m) == {m[i][1] : i \in DOMAIN m}
KeyIndex(m, k) == CHOOSE i \in DOMAIN m : m[i][1] = k
Get(m, k) == m[KeyIndex(m, k)][2]
SetItem(m, k, v) ==
    IF k \in Keys(m)
    THEN [i \in DOMAIN m |-> IF m[i][1] = k THEN <<k, v>> ELSE m[i]]
    ELSE Append(m, <<k, v>>)
PopKey(m, k) == SelectSeq(m, LAMBDA p : p[1] # k)

\* sep.join(parts) for a sequence of strings
RECURSIVE Join(_, _)
Join(sep, parts) ==
    IF parts = <<>> THEN <<>>
    ELSE IF Len(parts) = 1 THEN parts[1]
    ELSE parts[1] \o sep \o Join(sep, Tail(parts))

\* ------------------------------------------------------- _build_kwargs_string
ColumnKey == <<"column">>

KwargFragment(k, v) ==
    IF k = ColumnKey THEN <<"'">> \o v.text \o <<"'">>
    ELSE IF v.type = "str" THEN k \o <<"=", "'">> \o v.text \o <<"'">>
    ELSE k \o <<"=">> \o v.text

KwargFragments(kwargs) == [i \in DOMAIN kwargs |-> KwargFragment(kwargs[i][1], kwargs[i][2])]

_build_kwargs_string(expectation) == Join(<<", ">>, KwargFragments(expectation.kwargs))

\* ----------------------------------------------- _get_expectations_by_column
\* expectations_by_column is a dict whose keys are the str "table_expectations"
\* and the column values: a sequence of <<key, bucket>> pairs, a bucket being a
\* sequence of expectation references (indices into expectations)
TableKey == StrVal(<<"table_expectations">>)

HasBucket(by_column, key) == \E b \in DOMAIN by_column : SameKey(by_column[b][1], key)
BucketIndex(by_column, key) == CHOOSE b \in DOMAIN by_column : SameKey(by_column[b][1], key)
Bucket(by_column, key) == by_column[BucketIndex(by_column, key)][2]
PopBucket(by_column, key) == SelectSeq(by_column, LAMBDA p : ~SameKey(p[1], key))

\* the key the loop uses for expectation e: its column, or "table_expectations"
GroupKey(expectations, e) ==
    IF ColumnKey \in Keys(expectations[e].kwargs)
    THEN Get(expectations[e].kwargs, ColumnKey) ELSE TableKey

\* mutant: the expectation is put at the front of its bucket
GroupStepPrepend(by_column, expectations, e) ==
    LET key == GroupKey(expectations, e)
    IN  IF HasBucket(by_column, key)
        THEN [by_column EXCEPT ![BucketIndex(by_column, key)][2] = <<e>> \o @]
        ELSE Append(by_column, <<key, <<e>>>>)

\* one iteration of the loop, lines 71-78: a key the dict does not hold is added
\* with an empty bucket (the dict keeps the key it was given first), and
\* expectation reference e is appended to the bucket of its key
GroupStep(by_column, expectations, e) ==
    LET key == GroupKey(expectations, e)
    IN  IF HasBucket(by_column, key)
        THEN [by_column EXCEPT ![BucketIndex(by_column, key)][2] = Append(@, e)]
        ELSE Append(by_column, <<key, <<e>>>>)

\* the loop from expectation e on; the lookup of line 74 raises TypeError for a
\* column that cannot be hashed
RECURSIVE GroupLoop(_, _, _)
GroupLoop(by_column, expectations, e) ==
    IF e > Len(expectations) THEN Returns(by_column)
    ELSE IF ~Hashable(GroupKey(expectations, e)) THEN Raises("TypeError")
    ELSE GroupLoop(GroupStep(by_column, expectations, e), expectations, e + 1)

_get_expectations_by_column(expectations) ==
    GroupLoop(<<<<TableKey, <<>>>>>>, expectations, 1)

\* ------------------------------------------------------ _build_meta_arguments
Profiler == <<"BasicSuiteBuilderProfiler">>

\* repr() of a str, as str.format applies it to the keys and values of a dict.
\* The quote is the single quote, unless the text holds a single quote and no
\* double quote.
ReprQuote(text) ==
    IF (\E k \in DOMAIN text : text[k] = "'") /\ ~(\E k \in DOMAIN text : text[k] = "\"")
    THEN "\"" ELSE "'"

\* the backslash, the quote in use and the characters that are not printable
\* are escaped
ReprToken(tok, quote) ==
    IF tok = "\\" THEN <<"\\", "\\">>
    ELSE IF tok = "\n" THEN <<"\\", "n">>
    ELSE IF tok = "\t" THEN <<"\\", "t">>
    ELSE IF tok = "\r" THEN <<"\\", "r">>
    ELSE IF tok = "\f" THEN <<"\\", "x0c">>
    ELSE IF tok = quote THEN <<"\\", tok>>
    ELSE <<tok>>

StrRepr(text) ==
    LET quote == ReprQuote(text)
    IN  <<quote>> \o Join(<<>>, [k \in DOMAIN text |-> ReprToken(text[k], quote)]) \o <<quote>>

\* repr() of a value: of an int, a float, a bool, None, a list or a dict it is
\* the str() text
ValueRepr(v) ==
    IF v.type = "str" THEN StrRepr(v.text)
    ELSE IF v.type = "Decimal" THEN <<"Decimal", "(">> \o StrRepr(v.text) \o <<")">>
    ELSE v.text

DictRepr(items) ==
    <<"{">> \o Join(<<", ">>, [i \in DOMAIN items |->
                StrRepr(items[i][1]) \o <<": ">> \o ValueRepr(items[i][2])]) \o <<"}">>

\* a list and a dict as values: the text is the repr of the elements
ListVal(elems) ==
    [type |-> "list",
     text |-> <<"[">> \o Join(<<", ">>, [k \in DOMAIN elems |-> ValueRepr(elems[k])]) \o <<"]">>,
     num |-> 0]
DictVal(items) == [type |-> "dict", text |-> DictRepr(items), num |-> 0]

\* the meta object after the call: the profiler key is popped from the
\* caller's mapping itself
MetaAfterBuild(meta) ==
    IF meta.kind = "None" \/ meta.items = <<>> THEN meta
    ELSE [meta EXCEPT !.items = PopKey(meta.items, Profiler)]

\* the string the call returns
_build_meta_arguments(meta) ==
    IF meta.kind = "None" \/ meta.items = <<>> THEN <<>>
    ELSE LET left == MetaAfterBuild(meta).items
         IN  IF left # <<>> THEN <<", meta=">> \o DictRepr(left) ELSE <<>>

\* -------------------------------------------------- _fix_path_in_batch_kwargs
PathKey == <<"path">>

IsAbs(path) == Len(path) > 0 /\ path[1] = "/"
PathJoinUpUp(path) == <<"..", "/", "..", "/">> \o path

\* line 261: the mapping is not empty and holds a path
HoldsPath(items) == items # <<>> /\ PathKey \in Keys(items)

\* line 263: os.path.isabs raises TypeError for a path that is not a str
PathRaises(items) == HoldsPath(items) /\ Get(items, PathKey).type # "str"

\* lines 261-263: the mapping holds a path and the path is relative
HoldsRelativePath(items) ==
    HoldsPath(items) /\ ~PathRaises(items) /\ ~IsAbs(Get(items, PathKey).text)

\* the items after lines 261-264, when line 263 does not raise
FixedItems(items) ==
    IF HoldsRelativePath(items)
    THEN SetItem(items, PathKey, StrVal(PathJoinUpUp(Get(items, PathKey).text)))
    ELSE items

\* what the call returns or raises
_fix_path_in_batch_kwargs(batch_kwargs) ==
    IF batch_kwargs.kind = "None" THEN Returns(batch_kwargs)
    ELSE IF PathRaises(batch_kwargs.items) THEN Raises("TypeError")
    ELSE Returns(DictObj(FixedItems(batch_kwargs.items)))

\* the argument object after the call: a BatchKwargs is copied first, a plain
\* dict is rewritten in place, unless line 263 raised
ArgAfterFix(batch_kwargs) ==
    IF batch_kwargs.kind = "dict" /\ ~PathRaises(batch_kwargs.items)
    THEN DictObj(FixedItems(batch_kwargs.items))
    ELSE batch_kwargs

\* ------------------------------------------------------------ get_batch_kwargs
\* suite.get_citations(require_batch_kwargs=True): references (indices into
\* suite.citations, oldest first) to the entries that carry a batch_kwargs
CarriesBatchKwargs(citation) ==
    citation.batch_kwargs.kind # "None" /\ citation.batch_kwargs.items # <<>>

RECURSIVE get_citations(_, _)
get_citations(citations, from) ==
    IF from > Len(citations) THEN <<>>
    ELSE (IF CarriesBatchKwargs(citations[from]) THEN <<from>> ELSE <<>>)
         \o get_citations(citations, from + 1)

\* a reference to the object handed to _fix_path_in_batch_kwargs: the caller's
\* argument, the batch_kwargs of citation `at` of the suite, or none (the call
\* returns None without calling it)
Target(where, at) == [where |-> where, at |-> at]

\* mutant: citations[0] is taken instead of citations[-1]
ResolveOldest(suite, batch_kwargs) ==
    IF batch_kwargs.kind \in {"dict", "BatchKwargs"} THEN Target("argument", 0)
    ELSE IF suite.citations = <<>> THEN Target("argument", 0)
    ELSE LET with == get_citations(suite.citations, 1)
         IN  IF with = <<>> THEN Target("none", 0) ELSE Target("citation", with[1])

\* get_batch_kwargs, lines 242-254: which object is normalized
Resolve(suite, batch_kwargs) ==
    IF batch_kwargs.kind \in {"dict", "BatchKwargs"} THEN Target("argument", 0)
    ELSE IF suite.citations = <<>> THEN Target("argument", 0)
    ELSE LET with == get_citations(suite.citations, 1)
         IN  IF with = <<>> THEN Target("none", 0) ELSE Target("citation", with[Len(with)])

\* the whole call, uninterrupted.  raises: the exception raised ("": none);
\* result: the value returned; arg: the caller's batch_kwargs object after the
\* call; citations: suite.meta["citations"] after the call
get_batch_kwargs(suite, batch_kwargs) ==
    LET t == Resolve(suite, batch_kwargs)
        found == IF t.where = "citation" THEN suite.citations[t.at].batch_kwargs
                 ELSE batch_kwargs
        fixed == IF t.where = "none" THEN Returns(NoneObj) ELSE _fix_path_in_batch_kwargs(found)
    IN  [raises |-> fixed.raises,
         result |-> IF fixed.raises = "" THEN fixed.value ELSE NoneObj,
         arg |-> IF t.where = "argument" THEN ArgAfterFix(batch_kwargs) ELSE batch_kwargs,
         citations |-> IF t.where = "citation"
                       THEN [suite.citations EXCEPT ![t.at].batch_kwargs = ArgAfterFix(found)]
                       ELSE suite.citations]

\* ------------------------------------------------------------------- state
VARIABLES
    suites,                  \* the ExpectationSuite objects the callers hold
    arg_suite,               \* per invocation: which suite object it is given
    override,                \* the caller's batch_kwargs argument object
    given,                   \* the inputs as the caller built them (history)
    header_markdown,         \* self.header_markdown
    templates,               \* names self.template_env.get_template finds
    pc,                      \* per invocation: position in the method called
    entry,                   \* per invocation: the public method called
    error,                   \* per invocation: the exception it raised
    batch_kwargs,            \* per invocation: local batch_kwargs (and base_dir)
    expectations_by_column,  \* per invocation: local of add_expectation_cells_from_suite
    todo,                    \* per invocation: add_*_cell calls left in the method it is in
    pending,                 \* per invocation: the call (at most one) whose arguments are
                             \* evaluated and whose cell is not appended yet
    found_profiler,          \* per invocation: _build_meta_arguments found the profiler
                             \* key (line 190) and has not popped it yet (line 191)
    notebooks,               \* the notebook objects, by the invocation that created them
    self_notebook,           \* self._notebook: reference to a notebook (0: not set)
    ret,                     \* per invocation: the reference render returned (0: none)
    notebook,                \* per invocation: the notebook argument of
                             \* write_notebook_to_disk, a reference (0: none)
    disk,                    \* what was done to the destination files, in order
    unit                     \* last direct call of a helper and what it returned

vars == <<suites, arg_suite, override, given, header_markdown, templates, pc, entry,
          error, batch_kwargs, expectations_by_column, todo, pending, found_profiler,
          notebooks, self_notebook, ret, notebook, disk, unit>>

Invocations == 1..MaxCalls
SuiteIds == {1, 2}

SeqsUpTo(S, n) == UNION {[1..k -> S] : k \in 0..n}

\* ------------------------------------------------- the local batch_kwargs
\* The name batch_kwargs of a call is bound to an object: the caller's argument
\* object or the batch_kwargs object of a citation (both can be reached by
\* others), or an object of the call's own (value).  base_dir is the local of
\* _fix_path_in_batch_kwargs, line 262.
Bound(where, at, value, base_dir) ==
    [where |-> where, at |-> at, value |-> value, base_dir |-> base_dir]

Own(value) == Bound("own", 0, value, <<>>)

\* the object a reference names, as invocation i finds it now
ObjectAt(i, t) ==
    IF t.where = "argument" THEN override
    ELSE IF t.where = "citation" THEN suites[arg_suite[i]].citations[t.at].batch_kwargs
    ELSE batch_kwargs[i].value

\* ------------------------------------------------------------------- cells
NoRef == <<0, 0>>
NoVal == StrVal(<<>>)
NoParams ==
    [passed |-> {}, suite_name |-> <<>>, template_kwargs |-> <<>>, batch_kwargs |-> NoneObj,
     column |-> NoVal, expectation |-> NoRef, kwargs_string |-> <<>>, meta_args |-> <<>>]

\* a cell request: the template to look up ("": none, the text is given), the
\* parameters to render it with, the exception the render call raises ("":
\* none) and (touch) the expectation whose meta was handed to
\* _build_meta_arguments while the parameters were evaluated (0: none)
Request(cell_type, template, lint, params, raises, touch) ==
    [cell_type |-> cell_type, template |-> template, lint |-> lint,
     params |-> params, raises |-> raises, touch |-> touch]

\* nbformat.v4.new_markdown_cell / new_code_cell of the rendered template
CellOf(req) ==
    [cell_type |-> req.cell_type, template |-> req.template, lint |-> req.lint,
     params |-> req.params]

\* ------------------------------------------- the add_*_cell calls of a method
\* A method's calls still to be made: which call, for which template, with
\* which arguments (args), for which column and expectation (an index into the
\* suite's expectations, 0: none).  The arguments of a call are evaluated when
\* the call is made, not before.
Call(call, template, args, column, e) ==
    [call |-> call, template |-> template, args |-> args, column |-> column, e |-> e]

MarkdownCall(template) == Call("add_markdown_cell", template, "none", NoVal, 0)
CodeCall(template) == Call("add_code_cell", template, "none", NoVal, 0)

\* add_header(suite_name, batch_kwargs)
HeaderCalls ==
    << Call("add_markdown_cell_str",
            IF header_markdown.set THEN header_markdown.file_name ELSE "HEADER.md",
            "header_markdown", NoVal, 0),
       Call("add_code_cell", "header.py", "header_code", NoVal, 0) >>

\* add_authoring_intro()
IntroCalls == << MarkdownCall("AUTHORING_INTRO.md") >>

\* add_footer()
FooterCalls == << MarkdownCall("FOOTER.md"), CodeCall("footer.py") >>

\* _add_table_level_expectations(expectations_by_column)
_add_table_level_expectations(by_column) ==
    LET bucket == Bucket(by_column, TableKey)
    IN  IF bucket = <<>>
        THEN << MarkdownCall("TABLE_EXPECTATIONS_NOT_FOUND.md") >>
        ELSE [k \in DOMAIN bucket |->
                Call("add_code_cell", "table_expectation.py", "table", NoVal, bucket[k])]

\* the body of the loop over expectations_by_column.items(), from bucket b on
RECURSIVE ColumnLoop(_, _)
ColumnLoop(by_column, b) ==
    IF b > Len(by_column) THEN <<>>
    ELSE LET column == by_column[b][1]
             bucket == by_column[b][2]
         IN  << Call("add_markdown_cell", "COLUMN_EXPECTATIONS.md", "column", column, 0) >>
             \o [k \in DOMAIN bucket |->
                    Call("add_code_cell", "column_expectation.py", "expectation", NoVal,
                         bucket[k])]
             \o ColumnLoop(by_column, b + 1)

\* _add_column_level_expectations(expectations_by_column)
_add_column_level_expectations(by_column) ==
    IF by_column = <<>>
    THEN << MarkdownCall("COLUMN_EXPECTATIONS_NOT_FOUND.md") >>
    ELSE ColumnLoop(by_column, 1)

\* --------------------------------------------- the arguments of each call
Markdown(template, params) == Request("markdown", template, FALSE, params, "", 0)

SuiteNameKey == <<"suite_name">>

\* add_header, lines 99-104: the header text.  With a header_markdown its
\* template is rendered with suite_name and **template_kwargs: a TypeError
\* when template_kwargs is no mapping or names suite_name again.
HeaderMarkdownRequest(template, suite_name) ==
    LET kw == header_markdown.template_kwargs
    IN  IF header_markdown.set
        THEN Request("markdown", template, FALSE,
                     [NoParams EXCEPT !.passed = {"suite_name", "template_kwargs"},
                                      !.suite_name = suite_name,
                                      !.template_kwargs = kw.items],
                     IF kw.kind = "None" \/ SuiteNameKey \in Keys(kw.items)
                     THEN "TypeError" ELSE "",
                     0)
        ELSE Markdown(template, [NoParams EXCEPT !.passed = {"suite_name"},
                                                 !.suite_name = suite_name])

\* add_header, lines 106-108
HeaderCodeRequest(suite_name, bk) ==
    Request("code", "header.py", TRUE,
            [NoParams EXCEPT !.passed = {"suite_name", "batch_kwargs"},
                             !.suite_name = suite_name,
                             !.batch_kwargs = IF bk.kind = "None" \/ bk.items = <<>>
                                              THEN DictObj(<<>>) ELSE bk],
            "", 0)

\* the add_code_cell call of _add_table_level_expectations for expectation e of suite s
TableCellRequest(s, e) ==
    Request("code", "table_expectation.py", TRUE,
            [NoParams EXCEPT !.passed = {"expectation", "kwargs_string"},
                             !.expectation = <<s, e>>,
                             !.kwargs_string = _build_kwargs_string(suites[s].expectations[e])],
            "", 0)

\* the add_code_cell call of _add_column_level_expectations for expectation e of suite s
ColumnCellRequest(s, e) ==
    Request("code", "column_expectation.py", TRUE,
            [NoParams EXCEPT !.passed = {"expectation", "kwargs_string", "meta_args"},
                             !.expectation = <<s, e>>,
                             !.kwargs_string = _build_kwargs_string(suites[s].expectations[e]),
                             !.meta_args = _build_meta_arguments(suites[s].expectations[e].meta)],
            "", e)

\* the request invocation i makes for call c, its arguments evaluated now
RequestOf(i, c) ==
    LET s == arg_suite[i]
        suite_name == suites[s].expectation_suite_name
    IN  IF c.args = "header_markdown" THEN HeaderMarkdownRequest(c.template, suite_name)
        ELSE IF c.args = "header_code"
        THEN HeaderCodeRequest(suite_name, ObjectAt(i, batch_kwargs[i]))
        ELSE IF c.args = "table" THEN TableCellRequest(s, c.e)
        ELSE IF c.args = "expectation" THEN ColumnCellRequest(s, c.e)
        ELSE IF c.args = "column"
        THEN Markdown(c.template, [NoParams EXCEPT !.passed = {"column"}, !.column = c.column])
        ELSE IF c.call = "add_code_cell"
        THEN Request("code", c.template, FALSE, NoParams, "", 0)
        ELSE Markdown(c.template, NoParams)

\* the expectations after _build_meta_arguments(exp.meta) ran for those in touched
MetaBuilt(expectations, touched) ==
    [e \in DOMAIN expectations |->
        IF e \in touched
        THEN [expectations[e] EXCEPT !.meta = MetaAfterBuild(expectations[e].meta)]
        ELSE expectations[e]]

\* ----------------------------------------------------------------- actions
\* A call that evaluates its arguments by changing an object others can reach
\* (the meta of an expectation), or renders from one (a batch_kwargs that is
\* not the call's own), takes more than one step: other calls can run in
\* between.
ArgumentsFirst(c) == c.args = "expectation"
RenderFirst(i, c) == c.args = "header_code" /\ batch_kwargs[i].where # "own"

\* _build_meta_arguments, lines 186 and 190: the meta is a mapping with
\* entries and the profiler key is among its keys
HoldsProfiler(meta) == meta.kind # "None" /\ Profiler \in Keys(meta.items)

\* where a method goes on: the next method of render, or back to the caller
Continue(i, next_pc) ==
    IF entry[i] \in {"render", "render_to_disk"} THEN next_pc ELSE "done"

\* One step of one add_*_cell call of the method invocation i is in: calls are
\* the method's calls when it is entered with this step, else those left
\* (todo).  The arguments are evaluated, the template is looked up and
\* rendered, and the cell is appended to whatever self._notebook refers to at
\* that moment; an exception propagates.  _build_meta_arguments tests for the
\* profiler key (line 190) in one step and pops it (line 191) in the next:
\* meta.pop raises KeyError when the key has gone in between.
AddCell(i, calls, next_pc) ==
    LET left == IF todo[i] = <<>> THEN calls ELSE todo[i]
        c == Head(left)
        arguments == pending[i] = <<>> /\ ArgumentsFirst(c)
        holds == HoldsProfiler(suites[arg_suite[i]].expectations[c.e].meta)
        test == arguments /\ ~found_profiler[i] /\ holds
        pop == arguments /\ found_profiler[i]
        first == pending[i] = <<>> /\ (ArgumentsFirst(c) \/ RenderFirst(i, c))
        req == IF pending[i] # <<>> THEN pending[i][1] ELSE RequestOf(i, c)
        found == req.template = "" \/ req.template \in templates
        raised == IF pop /\ ~holds THEN "KeyError"
                  ELSE IF arguments THEN ""
                  ELSE IF ~found THEN "TemplateNotFound"
                  ELSE IF req.raises # "" THEN req.raises
                  ELSE IF ~first /\ self_notebook = 0 THEN "AttributeError"
                  ELSE ""
    IN  IF test
        THEN /\ found_profiler' = [found_profiler EXCEPT ![i] = TRUE]
             /\ todo' = [todo EXCEPT ![i] = left]
             /\ UNCHANGED <<suites, notebooks, pending, pc, error>>
        ELSE /\ found_profiler' = [found_profiler EXCEPT ![i] = FALSE]
             /\ suites' = IF arguments /\ raised = ""
                          THEN [suites EXCEPT ![arg_suite[i]].expectations =
                                                 MetaBuilt(@, {req.touch})]
                          ELSE suites
             /\ notebooks' = IF ~first /\ raised = ""
                             THEN [notebooks EXCEPT ![self_notebook] = Append(@, CellOf(req))]
                             ELSE notebooks
             /\ pending' = [pending EXCEPT ![i] = IF first /\ raised = "" THEN <<req>> ELSE <<>>]
             /\ todo' = [todo EXCEPT ![i] = IF raised # "" THEN <<>>
                                            ELSE IF first THEN left ELSE Tail(left)]
             /\ pc' = [pc EXCEPT ![i] = IF raised # "" THEN "raised"
                                        ELSE IF ~first /\ Tail(left) = <<>> THEN next_pc ELSE @]
             /\ error' = [error EXCEPT ![i] = IF raised # "" THEN raised ELSE @]

\* render, lines 209-212: the type check and the new notebook
RenderBegin(i, via) ==
    /\ pc[i] = "idle"
    /\ entry' = [entry EXCEPT ![i] = via]
    /\ IF ~suites[arg_suite[i]].is_suite
       THEN /\ pc' = [pc EXCEPT ![i] = "raised"]
            /\ error' = [error EXCEPT ![i] = "RuntimeWarning"]
            /\ UNCHANGED <<notebooks, self_notebook>>
       ELSE /\ pc' = [pc EXCEPT ![i] = "get_batch_kwargs"]
            /\ notebooks' = [notebooks EXCEPT ![i] = <<>>]
            /\ self_notebook' = i
            /\ UNCHANGED error
    /\ UNCHANGED <<suites, arg_suite, override, given, header_markdown, templates,
                   batch_kwargs, expectations_by_column, todo, pending, found_profiler, ret, notebook,
                   disk, unit>>

Render(i) == RenderBegin(i, "render")

RenderToDisk(i) == RenderBegin(i, "render_to_disk")

\* render, line 216: get_batch_kwargs up to the test of the path (line 263),
\* which raises TypeError for a path that is not a str.  A BatchKwargs is
\* copied and the copy normalized; a plain dict that holds a relative path is
\* still to be rewritten in place.
GetBatchKwargs(i) ==
    LET t == Resolve(suites[arg_suite[i]], override)
        found == IF t.where = "none" THEN NoneObj ELSE ObjectAt(i, t)
    IN  /\ pc[i] = "get_batch_kwargs"
        /\ IF _fix_path_in_batch_kwargs(found).raises # ""
           THEN /\ pc' = [pc EXCEPT ![i] = "raised"]
                /\ error' = [error EXCEPT ![i] = _fix_path_in_batch_kwargs(found).raises]
                /\ UNCHANGED batch_kwargs
           ELSE /\ batch_kwargs' = [batch_kwargs EXCEPT ![i] =
                        IF found.kind = "None" THEN Own(NoneObj)
                        ELSE IF found.kind = "BatchKwargs"
                        THEN Own(DictObj(FixedItems(found.items)))
                        ELSE IF HoldsRelativePath(found.items)
                        THEN Bound(t.where, t.at, NoneObj, Get(found.items, PathKey).text)
                        ELSE Bound(t.where, t.at, NoneObj, <<>>)]
                /\ pc' = [pc EXCEPT ![i] =
                        IF found.kind = "dict" /\ HoldsRelativePath(found.items)
                        THEN "fix_path" ELSE "add_header"]
                /\ UNCHANGED error
        /\ UNCHANGED <<suites, arg_suite, override, given, header_markdown, templates, entry,
                       expectations_by_column, todo, pending, found_profiler, notebooks, self_notebook,
                       ret, notebook, disk, unit>>

\* _fix_path_in_batch_kwargs, line 264: the path read before is joined to
\* ../.. and stored in the mapping
FixPath(i) ==
    LET t == batch_kwargs[i]
        path == StrVal(PathJoinUpUp(t.base_dir))
    IN  /\ pc[i] = "fix_path"
        /\ override' = IF t.where = "argument"
                       THEN [override EXCEPT !.items = SetItem(@, PathKey, path)]
                       ELSE override
        /\ suites' = IF t.where = "citation"
                     THEN [suites EXCEPT ![arg_suite[i]].citations[t.at].batch_kwargs.items =
                                            SetItem(@, PathKey, path)]
                     ELSE suites
        /\ pc' = [pc EXCEPT ![i] = "add_header"]
        /\ UNCHANGED <<arg_suite, given, header_markdown, templates, entry, error,
                       batch_kwargs, expectations_by_column, todo, pending, found_profiler, notebooks,
                       self_notebook, ret, notebook, disk, unit>>

AddHeader(i) ==
    /\ pc[i] = "add_header"
    /\ AddCell(i, HeaderCalls, Continue(i, "add_authoring_intro"))
    /\ UNCHANGED <<arg_suite, override, given, header_markdown, templates, entry,
                   batch_kwargs, expectations_by_column, self_notebook, ret, notebook,
                   disk, unit>>

AddAuthoringIntro(i) ==
    /\ pc[i] = "add_authoring_intro"
    /\ AddCell(i, IntroCalls, Continue(i, "add_table_expectations"))
    /\ UNCHANGED <<arg_suite, override, given, header_markdown, templates, entry,
                   batch_kwargs, expectations_by_column, self_notebook, ret, notebook,
                   disk, unit>>

\* add_expectation_cells_from_suite, lines 146-148: the expectations are
\* grouped when the method is entered (a TypeError of the grouping propagates
\* before any cell of the method), then the table-level cells are added
AddTableExpectations(i) ==
    LET entered == todo[i] = <<>>
        grouped == _get_expectations_by_column(suites[arg_suite[i]].expectations)
        by_column == IF entered THEN grouped.value ELSE expectations_by_column[i]
    IN  /\ pc[i] = "add_table_expectations"
        /\ IF entered /\ grouped.raises # ""
           THEN /\ pc' = [pc EXCEPT ![i] = "raised"]
                /\ error' = [error EXCEPT ![i] = grouped.raises]
                /\ UNCHANGED <<suites, expectations_by_column, todo, pending, found_profiler, notebooks>>
           ELSE /\ expectations_by_column' = [expectations_by_column EXCEPT ![i] = by_column]
                /\ AddCell(i, << MarkdownCall("TABLE_EXPECTATIONS_HEADER.md") >>
                              \o _add_table_level_expectations(by_column),
                           "add_column_expectations")
        /\ UNCHANGED <<arg_suite, override, given, header_markdown, templates,
                       entry, batch_kwargs, self_notebook, ret, notebook, disk, unit>>

\* add_expectation_cells_from_suite, lines 150-152
AddColumnExpectations(i) ==
    LET by_column == IF todo[i] = <<>>
                     THEN PopBucket(expectations_by_column[i], TableKey)
                     ELSE expectations_by_column[i]
    IN  /\ pc[i] = "add_column_expectations"
        /\ expectations_by_column' = [expectations_by_column EXCEPT ![i] = by_column]
        /\ AddCell(i, << MarkdownCall("COLUMN_EXPECTATIONS_HEADER.md") >>
                      \o _add_column_level_expectations(by_column),
                   Continue(i, "add_footer"))
        /\ UNCHANGED <<arg_suite, override, given, header_markdown, templates, entry,
                       batch_kwargs, self_notebook, ret, notebook, disk, unit>>

AddFooter(i) ==
    /\ pc[i] = "add_footer"
    /\ AddCell(i, FooterCalls, Continue(i, "return"))
    /\ UNCHANGED <<arg_suite, override, given, header_markdown, templates, entry,
                   batch_kwargs, expectations_by_column, self_notebook, ret, notebook,
                   disk, unit>>

\* render, line 222: return self._notebook
RenderReturn(i) ==
    /\ pc[i] = "return"
    /\ ret' = [ret EXCEPT ![i] = self_notebook]
    /\ pc' = [pc EXCEPT ![i] = IF entry[i] = "render_to_disk" THEN "write" ELSE "done"]
    /\ UNCHANGED <<suites, arg_suite, override, given, header_markdown, templates, entry,
                   error, batch_kwargs, expectations_by_column, todo, pending, found_profiler, notebooks,
                   self_notebook, notebook, disk, unit>>

\* render_to_disk, line 234: the arguments of write_notebook_to_disk are
\* evaluated, self._notebook is read (what render returned is not used)
ReadNotebook(i) ==
    /\ pc[i] = "write"
    /\ notebook' = [notebook EXCEPT ![i] = self_notebook]
    /\ pc' = [pc EXCEPT ![i] = "open"]
    /\ UNCHANGED <<suites, arg_suite, override, given, header_markdown, templates, entry,
                   error, batch_kwargs, expectations_by_column, todo, pending, found_profiler, notebooks,
                   self_notebook, ret, disk, unit>>

\* what is done to the destination of call i: it is opened for writing (created
\* or emptied), or the cells of a notebook are written to it
Opened(i) == [by |-> i, op |-> "open", notebook |-> notebook[i], cells |-> <<>>]
Written(i) ==
    [by |-> i, op |-> "write", notebook |-> notebook[i], cells |-> notebooks[notebook[i]]]

\* write_notebook_to_disk, line 200: open(notebook_file_path, "w") creates or
\* empties the file, or raises OSError and leaves the destination as it was
Open(i) ==
    /\ pc[i] = "open"
    /\ \/ /\ disk' = Append(disk, Opened(i))
          /\ pc' = [pc EXCEPT ![i] = "nbformat_write"]
          /\ UNCHANGED error
       \/ /\ pc' = [pc EXCEPT ![i] = "raised"]
          /\ error' = [error EXCEPT ![i] = "OSError"]
          /\ UNCHANGED disk
    /\ UNCHANGED <<suites, arg_suite, override, given, header_markdown, templates, entry,
                   batch_kwargs, expectations_by_column, todo, pending, found_profiler, notebooks,
                   self_notebook, ret, notebook, unit>>

\* write_notebook_to_disk, line 201: nbformat.write(notebook, f) writes the
\* cells the notebook holds at that moment, or raises and leaves the file as
\* open() made it (emptied), or with a part of the document in it
NbformatWrite(i) ==
    /\ pc[i] = "nbformat_write"
    /\ \/ /\ disk' = Append(disk, Written(i))
          /\ pc' = [pc EXCEPT ![i] = "done"]
          /\ UNCHANGED error
       \/ /\ pc' = [pc EXCEPT ![i] = "raised"]
          /\ error' = [error EXCEPT ![i] = "OSError"]
          /\ UNCHANGED disk
    /\ UNCHANGED <<suites, arg_suite, override, given, header_markdown, templates, entry,
                   batch_kwargs, expectations_by_column, todo, pending, found_profiler, notebooks,
                   self_notebook, ret, notebook, unit>>

\* ------------------------------------- the public building blocks, called
\* directly by the holder of the renderer (outside render)
Enter(i, method, at) ==
    /\ pc[i] = "idle"
    /\ entry' = [entry EXCEPT ![i] = method]
    /\ pc' = [pc EXCEPT ![i] = at]
    /\ UNCHANGED <<suites, arg_suite, override, given, header_markdown, templates, error,
                   expectations_by_column, todo, pending, found_profiler, notebooks, self_notebook, ret,
                   disk, unit>>

\* add_header(suite.expectation_suite_name, batch_kwargs) with the caller's object
CallAddHeader(i) ==
    /\ Enter(i, "add_header", "add_header")
    /\ batch_kwargs' = [batch_kwargs EXCEPT ![i] = Bound("argument", 0, NoneObj, <<>>)]
    /\ UNCHANGED notebook

CallAddAuthoringIntro(i) ==
    /\ Enter(i, "add_authoring_intro", "add_authoring_intro")
    /\ UNCHANGED <<batch_kwargs, notebook>>

\* add_expectation_cells_from_suite(suite.expectations)
CallAddExpectationCellsFromSuite(i) ==
    /\ Enter(i, "add_expectation_cells_from_suite", "add_table_expectations")
    /\ UNCHANGED <<batch_kwargs, notebook>>

CallAddFooter(i) ==
    /\ Enter(i, "add_footer", "add_footer")
    /\ UNCHANGED <<batch_kwargs, notebook>>

\* a single cell: the call is made and returns or raises in one step
OneCell(i, method, c) ==
    /\ pc[i] = "idle"
    /\ entry' = [entry EXCEPT ![i] = method]
    /\ AddCell(i, <<c>>, "done")
    /\ UNCHANGED <<arg_suite, override, given, header_markdown, templates, batch_kwargs,
                   expectations_by_column, self_notebook, ret, notebook, disk, unit>>

\* add_code_cell(code_file) with no template parameters
CallAddCodeCell(i) ==
    \E code_file \in {"footer.py", "no_such_file.py"} :
        OneCell(i, "add_code_cell", CodeCall(code_file))

\* add_markdown_cell(markdown_file) with no template parameters
CallAddMarkdownCell(i) ==
    \E markdown_file \in {"FOOTER.md", "NO_SUCH_FILE.md"} :
        OneCell(i, "add_markdown_cell", MarkdownCall(markdown_file))

\* add_markdown_cell_str(markdown): the text is given, no template is looked up
CallAddMarkdownCellStr(i) ==
    OneCell(i, "add_markdown_cell_str", Call("add_markdown_cell_str", "", "none", NoVal, 0))

\* write_notebook_to_disk(notebook, path) with a notebook render returned
CallWriteNotebookToDisk(i) ==
    \E j \in Invocations :
        /\ ret[j] # 0
        /\ Enter(i, "write_notebook_to_disk", "open")
        /\ notebook' = [notebook EXCEPT ![i] = ret[j]]
        /\ UNCHANGED batch_kwargs

\* ------------------------------------------------- direct calls of the helpers
UnitIdle ==
    [calls |-> 0, fn |-> "", error |-> "", e |-> 0, arg_meta |-> NoneObj,
     arg_bk |-> NoneObj, arg_citations |-> <<>>, kwargs_string |-> <<>>,
     by_column |-> <<>>, batch_kwargs |-> NoneObj, meta_args |-> <<>>]

UnitFrame ==
    UNCHANGED <<arg_suite, given, header_markdown, templates, pc, entry, error,
                batch_kwargs, expectations_by_column, todo, pending, found_profiler, notebooks,
                self_notebook, ret, notebook, disk>>

CallBuildKwargsString ==
    \E e \in DOMAIN suites[1].expectations :
        /\ unit.calls < MaxCalls
        /\ unit' = [unit EXCEPT !.calls = @ + 1, !.fn = "_build_kwargs_string",
                        !.error = "", !.e = e,
                        !.kwargs_string = _build_kwargs_string(suites[1].expectations[e])]
        /\ UNCHANGED <<suites, override>>
        /\ UnitFrame

CallGetExpectationsByColumn ==
    LET grouped == _get_expectations_by_column(suites[1].expectations)
    IN  /\ unit.calls < MaxCalls
        /\ unit' = [unit EXCEPT !.calls = @ + 1, !.fn = "_get_expectations_by_column",
                        !.error = grouped.raises,
                        !.by_column = IF grouped.raises = "" THEN grouped.value ELSE <<>>]
        /\ UNCHANGED <<suites, override>>
        /\ UnitFrame

CallBuildMetaArguments ==
    \E e \in DOMAIN suites[1].expectations :
        LET meta == suites[1].expectations[e].meta
        IN  /\ unit.calls < MaxCalls
            /\ unit' = [unit EXCEPT !.calls = @ + 1, !.fn = "_build_meta_arguments",
                            !.error = "", !.e = e, !.arg_meta = meta,
                            !.meta_args = _build_meta_arguments(meta)]
            /\ suites' = [suites EXCEPT ![1].expectations = MetaBuilt(@, {e})]
            /\ UNCHANGED override
            /\ UnitFrame

CallGetBatchKwargs ==
    LET got == get_batch_kwargs(suites[1], override)
    IN  /\ unit.calls < MaxCalls
        /\ unit' = [unit EXCEPT !.calls = @ + 1, !.fn = "get_batch_kwargs",
                        !.error = got.raises,
                        !.arg_bk = override, !.arg_citations = suites[1].citations,
                        !.batch_kwargs = got.result]
        /\ override' = got.arg
        /\ suites' = [suites EXCEPT ![1].citations = got.citations]
        /\ UnitFrame

\* ------------------------------------------------------------------ inputs
Rule(expectation_type, kwargs, meta) ==
    [expectation_type |-> expectation_type, kwargs |-> kwargs, meta |-> meta]

Suite(name, expectations, citations) ==
    [is_suite |-> TRUE, expectation_suite_name |-> name, expectations |-> expectations,
     citations |-> citations]

\* an argument that is not an ExpectationSuite
NotASuite ==
    [is_suite |-> FALSE, expectation_suite_name |-> <<>>, expectations |-> <<>>,
     citations |-> <<>>]

Citation(bk) == [batch_kwargs |-> bk]

ColA == StrVal(<<"a">>)
ColB == StrVal(<<"b">>)
Unnamed == StrVal(<<>>)
Notes == <<<<"notes">>, StrVal(<<"ok">>)>>
Apostrophe == <<<<"notes">>, StrVal(<<"it", "'", "s">>)>>
BothQuotes == <<<<"notes">>, StrVal(<<"a", "'", "b", "\"", "c", "\\", "d", "\n">>)>>
FormFeed == <<<<"it", "'", "s">>, StrVal(<<"form", "\f", "feed">>)>>
Threshold == <<<<"k", "\n">>, DecimalVal(3)>>
Marker == <<Profiler, StrVal(<<"very low">>)>>
RelPath == <<PathKey, StrVal(<<"data", "/", "file.csv">>)>>
AbsPath == <<PathKey, StrVal(<<"/", "abs", "/", "file.csv">>)>>
NotAPath == <<PathKey, IntVal(7)>>
Reader == <<<<"reader_method">>, StrVal(<<"read_csv">>)>>
\* a column given as a list of names
ColumnList == ListVal(<<ColA, ColB>>)

RenderRules ==
    { Rule("expect_table_row_count_to_equal", << <<<<"value">>, IntVal(3)>> >>,
           DictObj(<<Marker, Notes>>)),
      Rule("expect_column_values_to_be_between",
           << <<ColumnKey, ColA>>, <<<<"min_value">>, IntVal(0)>> >>, DictObj(<<Apostrophe>>)),
      Rule("expect_column_values_to_match_regex",
           << <<<<"regex">>, StrVal(<<"x+">>)>>, <<ColumnKey, ColA>> >>, DictObj(<<Marker>>)),
      Rule("expect_column_values_to_not_be_null", << <<ColumnKey, Unnamed>> >>, NoneObj),
      Rule("expect_column_to_exist", << <<ColumnKey, TableKey>> >>, DictObj(<<Notes, Marker>>)),
      Rule("expect_compound_columns_to_be_unique", << <<ColumnKey, ColumnList>> >>, NoneObj) }

RenderOverrides ==
    {NoneObj, DictObj(<<RelPath>>), BatchKwargsObj(<<RelPath, Reader>>), DictObj(<<NotAPath>>)}

BuiltinTemplates ==
    {"HEADER.md", "header.py", "AUTHORING_INTRO.md", "TABLE_EXPECTATIONS_HEADER.md",
     "TABLE_EXPECTATIONS_NOT_FOUND.md", "table_expectation.py",
     "COLUMN_EXPECTATIONS_HEADER.md", "COLUMN_EXPECTATIONS_NOT_FOUND.md",
     "COLUMN_EXPECTATIONS.md", "column_expectation.py", "FOOTER.md", "footer.py"}

\* header_markdown: None, or a NotebookConfig(file_name, template_kwargs)
NoHeaderMarkdown == [set |-> FALSE, file_name |-> "", template_kwargs |-> NoneObj]
NotebookConfig(file_name, template_kwargs) ==
    [set |-> TRUE, file_name |-> file_name, template_kwargs |-> template_kwargs]
CustomHeader ==
    NotebookConfig("CUSTOM_HEADER.md", DictObj(<< <<<<"title">>, StrVal(<<"T">>)>> >>))
ClashingHeader ==
    NotebookConfig("CUSTOM_HEADER.md", DictObj(<< <<SuiteNameKey, StrVal(<<"other">>)>> >>))

CustomTemplates == BuiltinTemplates \cup {"CUSTOM_HEADER.md"}

\* the renderer as constructed: its header_markdown and what its loaders find
Environments ==
    { [header_markdown |-> NoHeaderMarkdown, templates |-> BuiltinTemplates],
      [header_markdown |-> CustomHeader, templates |-> CustomTemplates],
      [header_markdown |-> ClashingHeader, templates |-> CustomTemplates],
      [header_markdown |-> NoHeaderMarkdown,
       templates |-> BuiltinTemplates \ {"column_expectation.py"}] }

\* the state before any call, for suites ss, caller argument bk, environment env
Start(ss, who, bk, env) ==
    /\ suites = ss
    /\ arg_suite = who
    /\ override = bk
    /\ given = [suites |-> ss, override |-> bk]
    /\ header_markdown = env.header_markdown
    /\ templates = env.templates
    /\ pc = [i \in Invocations |-> "idle"]
    /\ entry = [i \in Invocations |-> ""]
    /\ error = [i \in Invocations |-> ""]
    /\ batch_kwargs = [i \in Invocations |-> Own(NoneObj)]
    /\ expectations_by_column = [i \in Invocations |-> <<>>]
    /\ todo = [i \in Invocations |-> <<>>]
    /\ pending = [i \in Invocations |-> <<>>]
    /\ found_profiler = [i \in Invocations |-> FALSE]
    /\ notebooks = [i \in Invocations |-> <<>>]
    /\ self_notebook = 0
    /\ ret = [i \in Invocations |-> 0]
    /\ notebook = [i \in Invocations |-> 0]
    /\ disk = <<>>
    /\ unit = UnitIdle

\* ------------------------------------------------- repeated calls, one caller
Init ==
    \E su \in {NotASuite} \cup {Suite(<<"mysuite">>, rules, <<>>) :
                                    rules \in SeqsUpTo(RenderRules, MaxRules)},
       bk \in RenderOverrides, env \in Environments :
        Start([s \in SuiteIds |-> IF s = 1 THEN su ELSE NotASuite],
              [i \in Invocations |-> 1], bk, env)

\* a call starts when the calls before it have returned or raised
Turn(i) == \A j \in 1..(i - 1) : pc[j] \in {"done", "raised"}

Next ==
    \E i \in Invocations :
        \/ Turn(i) /\ Render(i)
        \/ Turn(i) /\ RenderToDisk(i)
        \/ GetBatchKwargs(i)
        \/ FixPath(i)
        \/ AddHeader(i)
        \/ AddAuthoringIntro(i)
        \/ AddTableExpectations(i)
        \/ AddColumnExpectations(i)
        \/ AddFooter(i)
        \/ RenderReturn(i)
        \/ ReadNotebook(i)
        \/ Open(i)
        \/ NbformatWrite(i)

Spec == Init /\ [][Next]_vars

\* ------------------------------------ two calls on one renderer, interleaved
ConcurrentCalls == {1, 2}

\* the two suites rendered at once: one table-level rule, one rule on column b
ConcRulesA ==
    <<Rule("expect_table_row_count_to_equal", << <<<<"value">>, IntVal(3)>> >>, NoneObj)>>

ConcRulesB ==
    <<Rule("expect_column_values_to_not_be_null", << <<ColumnKey, ColB>> >>,
           DictObj(<<Marker, Notes>>))>>

\* Every scenario ends one call or both early, which keeps the interleavings
\* of the appends countable.  In the first the renderer finds no
\* COLUMN_EXPECTATIONS_NOT_FOUND.md: suite_a, which has no column rule, fails
\* after six cells, suite_b is rendered to the end.  In the second one dict is
\* handed to both calls and the renderer finds no AUTHORING_INTRO.md: both
\* calls end after the header.  In the third both calls are given suite_b,
\* whose rule holds the profiler key, and the renderer finds no
\* column_expectation.py: both calls end once the arguments of the rule's cell
\* are evaluated.
ConcScenarios ==
    { [first |-> 1, override |-> NoneObj,
       env |-> [header_markdown |-> NoHeaderMarkdown,
                templates |-> BuiltinTemplates \ {"COLUMN_EXPECTATIONS_NOT_FOUND.md"}]],
      [first |-> 1, override |-> DictObj(<<RelPath>>),
       env |-> [header_markdown |-> NoHeaderMarkdown,
                templates |-> BuiltinTemplates \ {"AUTHORING_INTRO.md"}]],
      [first |-> 2, override |-> NoneObj,
       env |-> [header_markdown |-> NoHeaderMarkdown,
                templates |-> BuiltinTemplates \ {"column_expectation.py"}]] }

InitConc ==
    \E sc \in ConcScenarios :
        Start([s \in SuiteIds |-> IF s = 1 THEN Suite(<<"suite_a">>, ConcRulesA, <<>>)
                                  ELSE Suite(<<"suite_b">>, ConcRulesB, <<>>)],
              [i \in Invocations |-> IF i = 1 THEN sc.first ELSE 2],
              sc.override, sc.env)

\* one thread calls render (of suite_a, or of suite_b as well), the other
\* render_to_disk(suite_b); no lock is taken, so a thread switch can fall
\* between any two steps
NextConc ==
    \/ Render(1)
    \/ RenderToDisk(2)
    \/ \E i \in ConcurrentCalls :
        \/ GetBatchKwargs(i)
        \/ FixPath(i)
        \/ AddHeader(i)
        \/ AddAuthoringIntro(i)
        \/ AddTableExpectations(i)
        \/ AddColumnExpectations(i)
        \/ AddFooter(i)
        \/ RenderReturn(i)
        \/ ReadNotebook(i)
        \/ Open(i)
        \/ NbformatWrite(i)

SpecConc == InitConc /\ [][NextConc]_vars

\* --------------------------- render and the building blocks, one caller
DirectRules ==
    { <<>>,
      <<Rule("expect_column_values_to_not_be_null", << <<ColumnKey, ColB>> >>,
             DictObj(<<Marker, Notes>>))>> }

InitDirect ==
    \E rules \in DirectRules, bk \in {NoneObj, DictObj(<<RelPath>>)},
       cs \in {<<>>, <<Citation(DictObj(<<Reader, RelPath>>))>>} :
        Start([s \in SuiteIds |-> IF s = 1 THEN Suite(<<"mysuite">>, rules, cs)
                                  ELSE NotASuite],
              [i \in Invocations |-> 1], bk,
              [header_markdown |-> NoHeaderMarkdown, templates |-> BuiltinTemplates])

NextDirect ==
    \E i \in Invocations :
        \/ Turn(i) /\ Render(i)
        \/ Turn(i) /\ CallAddHeader(i)
        \/ Turn(i) /\ CallAddAuthoringIntro(i)
        \/ Turn(i) /\ CallAddExpectationCellsFromSuite(i)
        \/ Turn(i) /\ CallAddFooter(i)
        \/ Turn(i) /\ CallAddCodeCell(i)
        \/ Turn(i) /\ CallAddMarkdownCell(i)
        \/ Turn(i) /\ CallAddMarkdownCellStr(i)
        \/ Turn(i) /\ CallWriteNotebookToDisk(i)
        \/ GetBatchKwargs(i)
        \/ FixPath(i)
        \/ AddHeader(i)
        \/ AddAuthoringIntro(i)
        \/ AddTableExpectations(i)
        \/ AddColumnExpectations(i)
        \/ AddFooter(i)
        \/ RenderReturn(i)
        \/ Open(i)
        \/ NbformatWrite(i)

SpecDirect == InitDirect /\ [][NextDirect]_vars

\* ------------------------------------------------ the helpers called directly
NextUnit ==
    \/ CallBuildKwargsString
    \/ CallGetExpectationsByColumn
    \/ CallBuildMetaArguments
    \/ CallGetBatchKwargs

DefaultEnvironment == [header_markdown |-> NoHeaderMarkdown, templates |-> BuiltinTemplates]

UnitStart(su, bk) ==
    Start([s \in SuiteIds |-> IF s = 1 THEN su ELSE NotASuite],
          [i \in Invocations |-> 1], bk, DefaultEnvironment)

\* _build_kwargs_string: every ordered kwargs mapping of up to MaxKwargs entries
ParamItems ==
    { <<ColumnKey, ColA>>, <<ColumnKey, IntVal(7)>>, <<ColumnKey, Unnamed>>,
      <<<<"min_value">>, IntVal(0)>>, <<<<"regex">>, StrVal(<<"x+">>)>>,
      <<<<"strict">>, BoolVal(TRUE)>>, <<<<"mostly">>, FloatVal(1)>>,
      <<<<"value_set">>, ListVal(<<IntVal(1), StrVal(<<"a">>), NoneVal>>)>> }

AllKwargs ==
    {m \in SeqsUpTo(ParamItems, MaxKwargs) :
        \A i, j \in DOMAIN m : i # j => m[i][1] # m[j][1]}

\* _build_meta_arguments: no meta, and metas with quotes, escapes and a Decimal
UnitMetas ==
    { NoneObj, DictObj(<<Marker, Notes>>), DictObj(<<Apostrophe>>),
      DictObj(<<Marker, BothQuotes>>), DictObj(<<FormFeed, Threshold>>) }

InitKwargs ==
    \E kwargs \in AllKwargs, meta \in UnitMetas :
        UnitStart(Suite(<<"mysuite">>, <<Rule("expect_something", kwargs, meta)>>, <<>>),
                  NoneObj)

SpecKwargs == InitKwargs /\ [][NextUnit]_vars

\* _get_expectations_by_column: every sequence of up to MaxGroupRules rules,
\* with columns named by a str, by numbers that are equal (1, True, 1.0) and by
\* a list
GroupRules ==
    { Rule("expect_table_row_count_to_equal", << <<<<"value">>, IntVal(3)>> >>, NoneObj),
      Rule("expect_column_values_to_be_between",
           << <<<<"min_value">>, IntVal(0)>>, <<ColumnKey, ColA>> >>, NoneObj),
      Rule("expect_column_values_to_be_unique", << <<ColumnKey, ColB>> >>, DictObj(<<Marker>>)),
      Rule("expect_column_to_exist", << <<ColumnKey, TableKey>> >>, NoneObj),
      Rule("expect_column_values_to_not_be_null", << <<ColumnKey, IntVal(1)>> >>, NoneObj),
      Rule("expect_column_values_to_not_be_null", << <<ColumnKey, BoolVal(TRUE)>> >>, NoneObj),
      Rule("expect_column_values_to_not_be_null", << <<ColumnKey, FloatVal(2)>> >>, NoneObj),
      Rule("expect_compound_columns_to_be_unique", << <<ColumnKey, ColumnList>> >>, NoneObj) }

InitGroup ==
    \E rules \in SeqsUpTo(GroupRules, MaxGroupRules) :
        UnitStart(Suite(<<"mysuite">>, rules, <<>>), NoneObj)

SpecGroup == InitGroup /\ [][NextUnit]_vars

\* get_batch_kwargs: every override against every citation list of up to
\* MaxCitations entries
BatchOverrides ==
    { NoneObj, DictObj(<<>>), DictObj(<<RelPath>>), DictObj(<<Reader, AbsPath>>),
      DictObj(<<Reader>>), BatchKwargsObj(<<RelPath, Reader>>), DictObj(<<NotAPath>>),
      BatchKwargsObj(<<NotAPath>>) }

CitedBatchKwargs ==
    { NoneObj, DictObj(<<>>), DictObj(<<RelPath>>), DictObj(<<AbsPath, Reader>>),
      BatchKwargsObj(<<Reader, RelPath>>), DictObj(<<Reader, NotAPath>>) }

InitBatch ==
    \E cs \in SeqsUpTo({Citation(bk) : bk \in CitedBatchKwargs}, MaxCitations),
       bk \in BatchOverrides :
        UnitStart(Suite(<<"mysuite">>,
                        <<Rule("expect_column_values_to_not_be_null",
                               << <<ColumnKey, ColA>> >>, DictObj(<<Marker>>))>>,
                        cs),
                  bk)

SpecBatch == InitBatch /\ [][NextUnit]_vars

\* ================================================================== claims
Rules1 == suites[1].expectations
HasColumn(rule) == ColumnKey \in Keys(rule.kwargs)
ColumnOf(rule) == Get(rule.kwargs, ColumnKey)
InSeq(x, sq) == \E k \in DOMAIN sq : sq[k] = x
IsPrefix(a, b) == Len(a) <= Len(b) /\ \A k \in DOMAIN a : a[k] = b[k]

\* ------------------------------------------------------------------ C2
\* the argument string the claim describes: the column literal first, then
\* the other parameters in their original relative order
QuotedColumn(kwargs) == <<"'">> \o ColumnOf([kwargs |-> kwargs]).text \o <<"'">>
NamedFragment(item) ==
    IF item[2].type = "str" THEN item[1] \o <<"=", "'">> \o item[2].text \o <<"'">>
    ELSE item[1] \o <<"=">> \o item[2].text
OtherFragments(kwargs) ==
    LET others == SelectSeq(kwargs, LAMBDA item : item[1] # ColumnKey)
    IN  [k \in DOMAIN others |-> NamedFragment(others[k])]
ColumnHoisted(kwargs) ==
    Join(<<", ">>, (IF ColumnKey \in Keys(kwargs) THEN <<QuotedColumn(kwargs)>> ELSE <<>>)
                   \o OtherFragments(kwargs))

\* C2: whenever _build_kwargs_string has returned, its result lists the quoted
\* column literal first (wherever `column` sits in the mapping), the other
\* parameters after it in their original order, and is empty for an empty mapping.
C2_ColumnAlwaysFirst ==
    unit.fn = "_build_kwargs_string" =>
        unit.kwargs_string = ColumnHoisted(Rules1[unit.e].kwargs)

\* ------------------------------------------------------------------ C3
FirstSeen(column) ==
    CHOOSE e \in DOMAIN Rules1 :
        /\ HasColumn(Rules1[e]) /\ ColumnOf(Rules1[e]) = column
        /\ \A d \in 1..(e - 1) : ~(HasColumn(Rules1[d]) /\ ColumnOf(Rules1[d]) = column)

ColumnSeen(column) == \E e \in DOMAIN Rules1 : HasColumn(Rules1[e]) /\ ColumnOf(Rules1[e]) = column

\* every column of the rules is a value that can name a column (a key)
ColumnsAreNames == \A e \in DOMAIN Rules1 : HasColumn(Rules1[e]) => Hashable(ColumnOf(Rules1[e]))

\* C3: _get_expectations_by_column returns for every sequence of rules whose
\* columns can be keys, and whenever it has returned, the result holds the
\* table-scope bucket (also when every rule has a column), every column bucket
\* is keyed by a column name that occurs, the column buckets stand in the order
\* in which their names first occur among the rules, and the rules inside every
\* bucket are in suite order.
C3_GroupedOrder ==
    unit.fn = "_get_expectations_by_column" =>
        /\ ColumnsAreNames => unit.error = ""
        /\ unit.error = "" =>
            LET G == unit.by_column
            IN  /\ \E b \in DOMAIN G : G[b][1] = TableKey
                /\ \A b1, b2 \in DOMAIN G : b1 # b2 => G[b1][1] # G[b2][1]
                /\ \A b \in DOMAIN G : G[b][1] # TableKey => ColumnSeen(G[b][1])
                /\ \A b1, b2 \in DOMAIN G :
                        (b1 < b2 /\ G[b1][1] # TableKey /\ G[b2][1] # TableKey)
                            => FirstSeen(G[b1][1]) < FirstSeen(G[b2][1])
                /\ \A b \in DOMAIN G : \A k1, k2 \in DOMAIN G[b][2] :
                        k1 < k2 => G[b][2][k1] < G[b][2][k2]

\* every rule has a column, two column buckets exist, and one of them holds
\* two rules whose columns are equal numbers of different types
C3_Witness ==
    /\ unit.fn = "_get_expectations_by_column" /\ unit.error = ""
    /\ Rules1 # <<>>
    /\ \A e \in DOMAIN Rules1 : HasColumn(Rules1[e])
    /\ Len(unit.by_column) >= 3
    /\ \E b \in DOMAIN unit.by_column : \E k1, k2 \in DOMAIN unit.by_column[b][2] :
            ColumnOf(Rules1[unit.by_column[b][2][k1]]) # ColumnOf(Rules1[unit.by_column[b][2][k2]])

\* ------------------------------------------------------------------ C4
Occurrences(G, e) ==
    Cardinality({<<b, k>> \in (DOMAIN G) \X (1..Len(Rules1)) :
                    k \in DOMAIN G[b][2] /\ G[b][2][k] = e})

\* C4: whenever _get_expectations_by_column has returned, every rule is in
\* exactly one bucket; a rule with a column is in the bucket of that column and
\* not in the table-scope bucket; the table-scope bucket holds exactly the
\* rules without a column.
C4_PartitionByColumn ==
    (unit.fn = "_get_expectations_by_column" /\ unit.error = "") =>
        LET G == unit.by_column
            table == Get(G, TableKey)
        IN  \A e \in DOMAIN Rules1 :
                /\ Occurrences(G, e) = 1
                /\ HasColumn(Rules1[e]) =>
                        /\ \E b \in DOMAIN G : G[b][1] = ColumnOf(Rules1[e]) /\ InSeq(e, G[b][2])
                        /\ ~InSeq(e, table)
                /\ InSeq(e, table) <=> ~HasColumn(Rules1[e])

\* ------------------------------------------------------------------ C6
\* a descriptor of the data model: its path, when it has one, names a
\* filesystem location (a str)
PathIsName(obj) ==
    \A k \in DOMAIN obj.items : obj.items[k][1] = PathKey => obj.items[k][2].type = "str"

\* normalization as the claim states it: a relative path gains two parent
\* steps, everything else stays, the result is a plain mapping
Normalized(obj) ==
    DictObj([k \in DOMAIN obj.items |->
                IF obj.items[k][1] = PathKey /\ ~(Len(obj.items[k][2].text) > 0
                                                 /\ obj.items[k][2].text[1] = "/")
                THEN <<PathKey, StrVal(<<"..", "/", "..", "/">> \o obj.items[k][2].text)>>
                ELSE obj.items[k]])

\* the call returned the descriptor normalized
GotNormalized(obj) ==
    PathIsName(obj) => (unit.error = "" /\ unit.batch_kwargs = Normalized(obj))

\* the call returned no descriptor
GotAbsent == unit.error = "" /\ unit.batch_kwargs = NoneObj

\* the provenance entries that carry a descriptor: a mapping with entries
Carrying(citations) ==
    {c \in DOMAIN citations :
        citations[c].batch_kwargs.kind # "None" /\ citations[c].batch_kwargs.items # <<>>}

\* C6: get_batch_kwargs returns, for descriptors whose path is a str: (1) a
\* passed mapping, even an empty one, normalized, whatever the citations hold;
\* (2) otherwise with no citations the (absent) override; (3) otherwise with no
\* citation carrying a descriptor nothing; (4) otherwise the normalized
\* descriptor of the most recent citation that carries one.
C6_ResolutionOrder ==
    unit.fn = "get_batch_kwargs" =>
        LET bk == unit.arg_bk
            cs == unit.arg_citations
        IN  IF bk.kind # "None" THEN GotNormalized(bk)
            ELSE IF cs = <<>> THEN GotAbsent
            ELSE IF Carrying(cs) = {} THEN GotAbsent
            ELSE LET recent == CHOOSE c \in Carrying(cs) : \A d \in Carrying(cs) : d <= c
                 IN  GotNormalized(cs[recent].batch_kwargs)

\* no override, two citations carrying descriptors, the older one different
\* from the most recent one, whose relative path was rewritten
C6_Witness ==
    /\ unit.fn = "get_batch_kwargs" /\ unit.error = ""
    /\ unit.arg_bk.kind = "None"
    /\ Cardinality(Carrying(unit.arg_citations)) >= 2
    /\ unit.arg_citations[1].batch_kwargs # unit.arg_citations[Len(unit.arg_citations)].batch_kwargs
    /\ PathKey \in Keys(unit.batch_kwargs.items)
    /\ Get(unit.batch_kwargs.items, PathKey).text[1] = ".."

\* ------------------------------------------------------------------ C1
\* render has returned a document to invocation i
Returned(i) == ret[i] # 0

\* what a cell is, apart from the strings formatted into it
CellShape(cell) ==
    [cell_type |-> cell.cell_type, template |-> cell.template,
     suite_name |-> cell.params.suite_name, column |-> cell.params.column,
     expectation |-> cell.params.expectation]
Shapes(cells) == [k \in DOMAIN cells |-> CellShape(cells[k])]

Explanatory(template) ==
    [cell_type |-> "markdown", template |-> template, suite_name |-> <<>>,
     column |-> NoVal, expectation |-> NoRef]
Executable(template) ==
    [cell_type |-> "code", template |-> template, suite_name |-> <<>>,
     column |-> NoVal, expectation |-> NoRef]

RECURSIVE Ascending(_)
Ascending(S) ==
    IF S = {} THEN <<>>
    ELSE LET m == CHOOSE x \in S : \A y \in S : x <= y
         IN  <<m>> \o Ascending(S \ {m})

\* the table-scope rules (those without a column), in suite order
TableScope(rules) == Ascending({e \in DOMAIN rules : ~HasColumn(rules[e])})
\* the rules on a column, in suite order
RulesOn(rules, column) ==
    Ascending({e \in DOMAIN rules : HasColumn(rules[e]) /\ ColumnOf(rules[e]) = column})
\* the columns that have a bucket, in first-seen order
ColumnBuckets(rules) ==
    LET first == {e \in DOMAIN rules :
                    /\ HasColumn(rules[e])
                    /\ \A d \in 1..(e - 1) :
                            ~(HasColumn(rules[d]) /\ ColumnOf(rules[d]) = ColumnOf(rules[e]))}
        order == Ascending(first)
    IN  [k \in DOMAIN order |-> ColumnOf(rules[order[k]])]

RuleCells(s, template, bucket) ==
    [k \in DOMAIN bucket |-> [Executable(template) EXCEPT !.expectation = <<s, bucket[k]>>]]

RECURSIVE ColumnSections(_, _, _)
ColumnSections(s, rules, columns) ==
    IF columns = <<>> THEN <<>>
    ELSE << [Explanatory("COLUMN_EXPECTATIONS.md") EXCEPT !.column = columns[1]] >>
         \o RuleCells(s, "column_expectation.py", RulesOn(rules, columns[1]))
         \o ColumnSections(s, rules, Tail(columns))

\* the document of suite s, cell by cell, as the claim lists it
DocumentOf(s) ==
    LET rules == suites[s].expectations
        name == suites[s].expectation_suite_name
        table == TableScope(rules)
        columns == ColumnBuckets(rules)
    IN  << [Explanatory(IF header_markdown.set THEN header_markdown.file_name
                        ELSE "HEADER.md") EXCEPT !.suite_name = name],
           [Executable("header.py") EXCEPT !.suite_name = name],
           Explanatory("AUTHORING_INTRO.md"),
           Explanatory("TABLE_EXPECTATIONS_HEADER.md") >>
        \o (IF table = <<>> THEN << Explanatory("TABLE_EXPECTATIONS_NOT_FOUND.md") >>
            ELSE RuleCells(s, "table_expectation.py", table))
        \o << Explanatory("COLUMN_EXPECTATIONS_HEADER.md") >>
        \o (IF columns = <<>> THEN << Explanatory("COLUMN_EXPECTATIONS_NOT_FOUND.md") >>
            ELSE ColumnSections(s, rules, columns))
        \o << Explanatory("FOOTER.md"), Executable("footer.py") >>

C1_ReturnedInOrder ==
    \A i \in Invocations : Returned(i) => Shapes(notebooks[ret[i]]) = DocumentOf(arg_suite[i])

C1_AppendOnly == \A n \in Invocations : IsPrefix(notebooks[n], notebooks'[n])

\* C1: the document render returns for a suite is, cell for cell and in this
\* order: header explanatory, header executable, intro, table-section header,
\* one executable cell per table-scope rule (a rule without a column) in suite
\* order (one 'none found' cell exactly when there is no such rule),
\* column-section header, per column in first-seen order a per-column header
\* and one executable cell per rule on that column in suite order (one 'none
\* found' cell exactly when no rule has a column), footer explanatory, footer
\* executable; and no step removes or reorders a cell of a notebook.
C1_DocumentStructure == []C1_ReturnedInOrder /\ [][C1_AppendOnly]_vars

\* ------------------------------------------------------------------ C5
\* C5: the metadata mapping of every rule holds what the caller put there,
\* whatever the renderer has done so far.
C5_MetaLeftAlone ==
    \A s \in SuiteIds : \A e \in DOMAIN suites[s].expectations :
        suites[s].expectations[e].meta = given.suites[s].expectations[e].meta

\* ------------------------------------------------------------------ C7
\* C7: the document each of two interleaved render calls returns is the
\* document of its own suite: its own cells, in its own order, and no others.
C7_OwnDocument ==
    \A i \in ConcurrentCalls :
        pc[i] = "done" => Shapes(notebooks[ret[i]]) = DocumentOf(arg_suite[i])

\* ------------------------------------------------------------------ C8
\* what call i did to its destination, and the documents it wrote there
TouchedBy(i) == {k \in DOMAIN disk : disk[k].by = i}
WritesBy(i) == {k \in DOMAIN disk : disk[k].by = i /\ disk[k].op = "write"}

\* C8: a call given something that is not a suite raises before any cell is
\* appended; a call that raised, at whatever step, has returned no document
\* (render_to_disk returns none in any case) and has left its destination as
\* it was; a call writes at most once, and what it writes ends with the footer
\* executable cell.
C8_FailsAtomically ==
    \A i \in Invocations :
        /\ (pc[i] # "idle" /\ ~suites[arg_suite[i]].is_suite)
                => pc[i] = "raised" /\ error[i] = "RuntimeWarning"
        /\ error[i] = "RuntimeWarning" => notebooks[i] = <<>> /\ self_notebook # i
        /\ pc[i] = "raised" => (entry[i] = "render" => ret[i] = 0) /\ TouchedBy(i) = {}
        /\ Cardinality(WritesBy(i)) <= 1
        /\ \A k \in WritesBy(i) :
                /\ disk[k].cells # <<>>
                /\ disk[k].cells[Len(disk[k].cells)].template = "footer.py"

\* ------------------------------------------------------------------ C9
NonMarkerMeta(rule) == \E k \in DOMAIN rule.meta.items : rule.meta.items[k][1] # Profiler

\* C9: every table-scope rule cell is given the argument string and the
\* metadata fragment, and the fragment is not empty when the rule has metadata
\* besides the profiler marker.
C9_TableCellsGetMeta ==
    \A n \in Invocations : \A k \in DOMAIN notebooks[n] :
        LET cell == notebooks[n][k]
            rule == suites[cell.params.expectation[1]].expectations[cell.params.expectation[2]]
        IN  cell.template = "table_expectation.py" =>
                /\ {"kwargs_string", "meta_args"} \subseteq cell.params.passed
                /\ NonMarkerMeta(rule) => cell.params.meta_args # <<>>

\* ------------------------------------------------------------------ C10
\* C10: any two render calls with the same suite and the same override object
\* return the same cells.
C10_SameCellsEveryCall ==
    \A i, j \in Invocations :
        (Returned(i) /\ Returned(j)) => notebooks[ret[i]] = notebooks[ret[j]]

====
